---------------------------- MODULE Spec2Model ----------------------------
(***************************************************************************)
(* To-do application: Task.save() with slug generation and its one-retry   *)
(* policy, the before_insert hook, and the signup handler with its e-mail  *)
(* pre-check, run by concurrent request handlers against one relational    *)
(* store with UNIQUE constraints on tasks.slug and users.email.            *)
(*                                                                         *)
(* Strings are sequences of one-character strings.  None is modelled by 0  *)
(* for integer ids and by the empty sequence for strings (both are falsy   *)
(* in Python, which is all the code tests).                                *)
(***************************************************************************)
EXTENDS Integers, Sequences, FiniteSets, TLC

\* Number of request handlers (each handles one request, numbered in
\* arrival order).
NumProcs == 3

Procs == 1..NumProcs

None == 0
Empty == <<>>

-----------------------------------------------------------------------------
(* Text helpers *)

Digits == <<"0", "1", "2", "3", "4", "5", "6", "7", "8", "9">>

\* str(n) for n >= 0, as the f-strings format integers.
RECURSIVE ToStr(_)
ToStr(n) ==
    IF n < 10 THEN <<Digits[n + 1]>>
    ELSE ToStr(n \div 10) \o <<Digits[(n % 10) + 1]>>

\* str.lower() on the characters the inputs use.
Lower(c) ==
    CASE c = "A" -> "a"
      [] c = "B" -> "b"
      [] c = "C" -> "c"
      [] c = "G" -> "g"
      [] c = "I" -> "i"
      [] c = "N" -> "n"
      [] c = "P" -> "p"
      [] OTHER -> c

LowerStr(s) == [i \in 1..Len(s) |-> Lower(s[i])]

Whitespace == {" "}

\* str.strip(): leading and trailing whitespace removed.
RECURSIVE LStrip(_)
LStrip(s) ==
    IF Len(s) > 0 /\ s[1] \in Whitespace THEN LStrip(Tail(s)) ELSE s

RECURSIVE RStrip(_)
RStrip(s) ==
    IF Len(s) > 0 /\ s[Len(s)] \in Whitespace
    THEN RStrip(SubSeq(s, 1, Len(s) - 1))
    ELSE s

Strip(s) == RStrip(LStrip(s))

\* Characters slugify keeps after lowercasing: [a-z0-9] and the dash.
SlugSafe ==
    {"a", "b", "c", "g", "i", "k", "n", "p", "s", "t", "-"} \cup
    {Digits[i] : i \in 1..10}

\* Runs of dashes collapsed to one, trailing dash dropped.
RECURSIVE Squeeze(_)
Squeeze(s) ==
    IF Len(s) = 0 THEN <<>>
    ELSE IF s[1] = "-" /\ (Len(s) = 1 \/ s[2] = "-") THEN Squeeze(Tail(s))
    ELSE <<s[1]>> \o Squeeze(Tail(s))

RECURSIVE StripDash(_)
StripDash(s) ==
    IF Len(s) > 0 /\ s[1] = "-" THEN StripDash(Tail(s)) ELSE s

\* slugify(text): lowercase, every character outside [-a-z0-9] becomes a
\* dash, duplicate dashes collapse, leading and trailing dashes are removed.
Slugify(text) ==
    LET low == LowerStr(text)
        sep == [i \in 1..Len(low) |->
                   IF low[i] \in SlugSafe THEN low[i] ELSE "-"]
    IN  StripDash(Squeeze(sep))

\* The suffix formed from the counter already incremented.
NextCandidateOffByOne(b, n) == b \o <<"-">> \o ToStr(n + 1)

\* f"{base}-{counter}"
NextCandidate(b, n) == b \o <<"-">> \o ToStr(n)

\* The fallback formed without the id.
SlugBaseNoId(ttl, id) ==
    IF Slugify(ttl) # Empty THEN Slugify(ttl)
    ELSE Slugify(<<"t", "a", "s", "k", "-">>)

\* slugify(self.title), or slugify(f"task-{self.id or ''}") when that is empty.
SlugBase(ttl, id) ==
    IF Slugify(ttl) # Empty THEN Slugify(ttl)
    ELSE Slugify(<<"t", "a", "s", "k", "-">> \o
                 (IF id = None THEN Empty ELSE ToStr(id)))

\* before_insert listener: a missing slug becomes slugify(title) or 'task'.
task_before_insert(ttl, slg) ==
    IF slg = Empty
    THEN (IF Slugify(ttl) # Empty THEN Slugify(ttl) ELSE <<"t", "a", "s", "k">>)
    ELSE slg

\* Normalization that only trims.
NormalizeEmailNoLower(e) == Strip(e)

\* form.email.data.strip().lower()
NormalizeEmail(e) == LowerStr(Strip(e))

-----------------------------------------------------------------------------
(* Inputs *)

\* Titles submitted through the task form (already stripped, length >= 3).
Titles ==
    { <<"P", "i", "n", "g">>,
      <<"p", "i", "n", "g", " ", "1">>,
      <<"!", "!", "!">> }

\* E-mail addresses submitted through the signup form.
Emails ==
    { <<"A", "@", "B">>,
      <<" ", "c", "@", "b">> }

-----------------------------------------------------------------------------
(* State *)

VARIABLES
    tasks,      \* rows of table tasks: [id, user_id, title, slug]
    users,      \* rows of table users: [id, email]
    pc,         \* where each request handler stands
    kind,       \* which request the handler serves
    title,      \* self.title of the handler's Task
    owner,      \* self.user_id of the handler's Task
    tid,        \* self.id of the handler's Task / User (None until inserted)
    slug,       \* self.slug of the handler's Task (for a bare call of
                \* _generate_unique_slug, the value it returned)
    base,       \* local `base` of _generate_unique_slug
    cand,       \* local `slug_candidate` of _generate_unique_slug
    counter,    \* local `counter` of _generate_unique_slug
    email,      \* user.email of the handler's User
    raw,        \* form.email.data as submitted
    result,     \* how the request ended: "ok", "error", "rejected"
    attempts,   \* commits the handler has issued
    snap,       \* slugs stored when the handler's slug was last assigned
    peers       \* task-writing handlers whose request overlapped this one

vars ==
    <<tasks, users, pc, kind, title, owner, tid, slug, base, cand, counter,
      email, raw, result, attempts, snap, peers>>

taskLocals == <<title, owner, tid, slug, base, cand, counter, snap>>
userLocals == <<email, raw>>

Slugs == {t.slug : t \in tasks}

MaxOf(S) == CHOOSE m \in S : \A x \in S : x <= m

\* Integer primary key assigned by the store on insert.
NewId(rows) == IF rows = {} THEN 1 ELSE 1 + MaxOf({r.id : r \in rows})

\* A column tasks.slug without the constraint.
NoSlugConstraint(s) == FALSE

\* UNIQUE constraint on tasks.slug: is an insert of slug s rejected?
SlugUniqueViolation(s) == \E t \in tasks : t.slug = s

\* A column users.email without the constraint.
NoEmailConstraint(e) == FALSE

\* UNIQUE constraint on users.email: is an insert of e-mail e rejected?
EmailUniqueViolation(e) == \E u \in users : u.email = e

\* The absent result of a lookup (Python None), shaped as a row with id None.
NoTask == [id |-> None, user_id |-> None, title |-> Empty, slug |-> Empty]
NoUser == [id |-> None, email |-> Empty]

\* A lookup matching slugs that merely start with s, newest row first.
get_by_slug_prefix(s) ==
    LET hit == {t \in tasks : Len(t.slug) >= Len(s) /\ SubSeq(t.slug, 1, Len(s)) = s}
    IN  IF hit # {}
        THEN CHOOSE t \in hit : \A u \in hit : u.id <= t.id
        ELSE NoTask

\* Task.query.filter_by(slug=slug).first()
get_by_slug(s) ==
    IF \E t \in tasks : t.slug = s
    THEN CHOOSE t \in tasks : t.slug = s
    ELSE NoTask

\* Task.query.filter_by(slug=slug_candidate).first() is not None
SlugExists(s) == \E t \in tasks : t.slug = s

\* User.query.filter_by(email=email).first()
get_by_email(e) ==
    IF \E u \in users : u.email = e
    THEN CHOOSE u \in users : u.email = e
    ELSE NoUser

\* Handlers inside Task.save()
InSave == {v \in Procs : pc[v] \in {"gen1", "commit1", "gen2", "commit2"}}

\* A user registered before the application was started.
SeedUser == [id |-> 1, email |-> <<"a", "@", "b">>]

Init ==
    /\ tasks = {}
    /\ users \in {{}, {SeedUser}}
    /\ pc = [w \in Procs |-> "idle"]
    /\ kind = [w \in Procs |-> "none"]
    /\ title = [w \in Procs |-> Empty]
    /\ owner = [w \in Procs |-> None]
    /\ tid = [w \in Procs |-> None]
    /\ slug = [w \in Procs |-> Empty]
    /\ base = [w \in Procs |-> Empty]
    /\ cand = [w \in Procs |-> Empty]
    /\ counter = [w \in Procs |-> 0]
    /\ email = [w \in Procs |-> Empty]
    /\ raw = [w \in Procs |-> Empty]
    /\ result = [w \in Procs |-> "none"]
    /\ attempts = [w \in Procs |-> 0]
    /\ snap = [w \in Procs |-> {}]
    /\ peers = [w \in Procs |-> {}]

\* Requests are numbered in the order they arrive.
Arrives(w) == pc[w] = "idle" /\ \A v \in Procs : v < w => pc[v] # "idle"

-----------------------------------------------------------------------------
(* Task creation *)

\* One evaluation of the while condition of _generate_unique_slug by
\* handler w, whose locals are base b, slug_candidate c and counter n: the
\* candidate is looked up in the store; if taken the next candidate is formed
\* and w stays at `here`, otherwise the candidate is returned (in save(),
\* assigned to self.slug) and w moves to `after`.
LoopTest(w, b, c, n, here, after) ==
    /\ base' = [base EXCEPT ![w] = b]
    /\ IF SlugExists(c)
       THEN /\ cand' = [cand EXCEPT ![w] = NextCandidate(b, n)]
            /\ counter' = [counter EXCEPT ![w] = n + 1]
            /\ pc' = [pc EXCEPT ![w] = here]
            /\ UNCHANGED <<slug, snap>>
       ELSE /\ cand' = [cand EXCEPT ![w] = c]
            /\ counter' = [counter EXCEPT ![w] = n]
            /\ pc' = [pc EXCEPT ![w] = after]
            /\ slug' = [slug EXCEPT ![w] = c]
            /\ snap' = [snap EXCEPT ![w] = Slugs]

\* save() with the suffix counter starting at 0.
StartSaveCounterZero(w, ttl, uid) ==
    /\ Arrives(w)
    /\ kind' = [kind EXCEPT ![w] = "save"]
    /\ title' = [title EXCEPT ![w] = ttl]
    /\ owner' = [owner EXCEPT ![w] = uid]
    /\ LoopTest(w, SlugBase(ttl, tid[w]), SlugBase(ttl, tid[w]), 0,
                "gen1", "commit1")
    /\ peers' = [v \in Procs |->
                   IF v = w THEN InSave
                   ELSE IF v \in InSave THEN peers[v] \cup {w}
                   ELSE peers[v]]
    /\ UNCHANGED <<tasks, users, tid, result, attempts>>
    /\ UNCHANGED userLocals

\* create_task builds the Task and calls save(); the slug is unset, so
\* _generate_unique_slug starts (base, slug_candidate = base, counter = 1)
\* and issues its first query.
StartSave(w, ttl, uid) ==
    /\ Arrives(w)
    /\ kind' = [kind EXCEPT ![w] = "save"]
    /\ title' = [title EXCEPT ![w] = ttl]
    /\ owner' = [owner EXCEPT ![w] = uid]
    /\ LoopTest(w, SlugBase(ttl, tid[w]), SlugBase(ttl, tid[w]), 1,
                "gen1", "commit1")
    /\ peers' = [v \in Procs |->
                   IF v = w THEN InSave
                   ELSE IF v \in InSave THEN peers[v] \cup {w}
                   ELSE peers[v]]
    /\ UNCHANGED <<tasks, users, tid, result, attempts>>
    /\ UNCHANGED userLocals

\* A further query of the loop.
Query(w) ==
    /\ pc[w] \in {"gen1", "gen2", "gen"}
    /\ LoopTest(w, base[w], cand[w], counter[w], pc[w],
                CASE pc[w] = "gen1" -> "commit1"
                  [] pc[w] = "gen2" -> "commit2"
                  [] OTHER -> "done")
    /\ result' = [result EXCEPT ![w] =
                    IF pc[w] = "gen" /\ ~SlugExists(cand[w]) THEN "ok"
                    ELSE result[w]]
    /\ UNCHANGED <<tasks, users, kind, title, owner, tid, attempts, peers>>
    /\ UNCHANGED userLocals

\* The row session.add(self); session.commit() sends to the store.
Row(w, id) ==
    [id |-> id, user_id |-> owner[w], title |-> title[w],
     slug |-> task_before_insert(title[w], slug[w])]

\* First commit with no except clause: the IntegrityError ends save().
Commit1NoRetry(w) ==
    /\ pc[w] = "commit1"
    /\ attempts' = [attempts EXCEPT ![w] = attempts[w] + 1]
    /\ pc' = [pc EXCEPT ![w] = "done"]
    /\ IF SlugUniqueViolation(Row(w, None).slug)
       THEN /\ result' = [result EXCEPT ![w] = "error"]
            /\ UNCHANGED <<tasks, tid>>
       ELSE /\ tasks' = tasks \cup {Row(w, NewId(tasks))}
            /\ tid' = [tid EXCEPT ![w] = NewId(tasks)]
            /\ result' = [result EXCEPT ![w] = "ok"]
    /\ UNCHANGED <<users, kind, title, owner, slug, base, cand, counter, snap, peers>>
    /\ UNCHANGED userLocals

\* First commit of save(): the insert succeeds, or the UNIQUE constraint
\* raises IntegrityError, the session is rolled back and slug generation
\* starts again.
Commit1(w) ==
    /\ pc[w] = "commit1"
    /\ attempts' = [attempts EXCEPT ![w] = attempts[w] + 1]
    /\ IF SlugUniqueViolation(Row(w, None).slug)
       THEN /\ pc' = [pc EXCEPT ![w] = "gen2"]
            /\ base' = [base EXCEPT ![w] = SlugBase(title[w], tid[w])]
            /\ cand' = [cand EXCEPT ![w] = SlugBase(title[w], tid[w])]
            /\ counter' = [counter EXCEPT ![w] = 1]
            /\ UNCHANGED <<tasks, tid, result>>
       ELSE /\ tasks' = tasks \cup {Row(w, NewId(tasks))}
            /\ tid' = [tid EXCEPT ![w] = NewId(tasks)]
            /\ pc' = [pc EXCEPT ![w] = "done"]
            /\ result' = [result EXCEPT ![w] = "ok"]
            /\ UNCHANGED <<base, cand, counter>>
    /\ UNCHANGED <<users, kind, title, owner, slug, snap, peers>>
    /\ UNCHANGED userLocals

\* Second commit inside a retry loop: a rejected insert regenerates again.
Commit2Retry(w) ==
    /\ pc[w] = "commit2"
    /\ attempts' = [attempts EXCEPT ![w] = attempts[w] + 1]
    /\ IF SlugUniqueViolation(Row(w, None).slug)
       THEN /\ pc' = [pc EXCEPT ![w] = "gen2"]
            /\ base' = [base EXCEPT ![w] = SlugBase(title[w], tid[w])]
            /\ cand' = [cand EXCEPT ![w] = SlugBase(title[w], tid[w])]
            /\ counter' = [counter EXCEPT ![w] = 1]
            /\ UNCHANGED <<tasks, tid, result>>
       ELSE /\ tasks' = tasks \cup {Row(w, NewId(tasks))}
            /\ tid' = [tid EXCEPT ![w] = NewId(tasks)]
            /\ pc' = [pc EXCEPT ![w] = "done"]
            /\ result' = [result EXCEPT ![w] = "ok"]
            /\ UNCHANGED <<base, cand, counter>>
    /\ UNCHANGED <<users, kind, title, owner, slug, snap, peers>>
    /\ UNCHANGED userLocals

\* Second commit that overwrites the row holding the slug instead of failing.
Commit2Upsert(w) ==
    /\ pc[w] = "commit2"
    /\ attempts' = [attempts EXCEPT ![w] = attempts[w] + 1]
    /\ pc' = [pc EXCEPT ![w] = "done"]
    /\ tasks' = {t \in tasks : t.slug # Row(w, None).slug} \cup {Row(w, NewId(tasks))}
    /\ tid' = [tid EXCEPT ![w] = NewId(tasks)]
    /\ result' = [result EXCEPT ![w] = "ok"]
    /\ UNCHANGED <<users, kind, title, owner, slug, base, cand, counter, snap, peers>>
    /\ UNCHANGED userLocals

\* Second commit of save(): outside the try block, so an IntegrityError
\* leaves save() and reaches the caller.
Commit2(w) ==
    /\ pc[w] = "commit2"
    /\ attempts' = [attempts EXCEPT ![w] = attempts[w] + 1]
    /\ pc' = [pc EXCEPT ![w] = "done"]
    /\ IF SlugUniqueViolation(Row(w, None).slug)
       THEN /\ result' = [result EXCEPT ![w] = "error"]
            /\ UNCHANGED <<tasks, tid>>
       ELSE /\ tasks' = tasks \cup {Row(w, NewId(tasks))}
            /\ tid' = [tid EXCEPT ![w] = NewId(tasks)]
            /\ result' = [result EXCEPT ![w] = "ok"]
    /\ UNCHANGED <<users, kind, title, owner, slug, base, cand, counter, snap, peers>>
    /\ UNCHANGED userLocals

\* A Task added with session.add()/commit() directly, slug unset: the
\* before_insert listener supplies the slug, then the row is inserted or the
\* UNIQUE constraint raises.
DirectInsert(w, ttl, uid) ==
    /\ Arrives(w)
    /\ kind' = [kind EXCEPT ![w] = "direct"]
    /\ title' = [title EXCEPT ![w] = ttl]
    /\ owner' = [owner EXCEPT ![w] = uid]
    /\ slug' = [slug EXCEPT ![w] = task_before_insert(ttl, slug[w])]
    /\ snap' = [snap EXCEPT ![w] = Slugs]
    /\ attempts' = [attempts EXCEPT ![w] = attempts[w] + 1]
    /\ pc' = [pc EXCEPT ![w] = "done"]
    /\ peers' = [v \in Procs |->
                   IF v = w THEN InSave
                   ELSE IF v \in InSave THEN peers[v] \cup {w}
                   ELSE peers[v]]
    /\ IF SlugUniqueViolation(task_before_insert(ttl, slug[w]))
       THEN /\ result' = [result EXCEPT ![w] = "error"]
            /\ UNCHANGED <<tasks, tid>>
       ELSE /\ tasks' = tasks \cup
                  {[id |-> NewId(tasks), user_id |-> uid, title |-> ttl,
                    slug |-> task_before_insert(ttl, slug[w])]}
            /\ tid' = [tid EXCEPT ![w] = NewId(tasks)]
            /\ result' = [result EXCEPT ![w] = "ok"]
    /\ UNCHANGED <<users, base, cand, counter>>
    /\ UNCHANGED userLocals

\* _generate_unique_slug() called on a Task loaded from the store, which
\* has an id.
CallGenerate(w, t) ==
    /\ Arrives(w)
    /\ pc' = [pc EXCEPT ![w] = "gen"]
    /\ kind' = [kind EXCEPT ![w] = "generate"]
    /\ title' = [title EXCEPT ![w] = t.title]
    /\ owner' = [owner EXCEPT ![w] = t.user_id]
    /\ tid' = [tid EXCEPT ![w] = t.id]
    /\ slug' = [slug EXCEPT ![w] = t.slug]
    /\ base' = [base EXCEPT ![w] = SlugBase(t.title, t.id)]
    /\ cand' = [cand EXCEPT ![w] = SlugBase(t.title, t.id)]
    /\ counter' = [counter EXCEPT ![w] = 1]
    /\ UNCHANGED <<tasks, users, snap, result, attempts, peers>>
    /\ UNCHANGED userLocals

-----------------------------------------------------------------------------
(* Signup *)

\* signup, up to user.save(): the normalized e-mail is looked up; a hit
\* ends the request with the flash message, a miss builds the User.
SignupCheck(w, e) ==
    /\ Arrives(w)
    /\ kind' = [kind EXCEPT ![w] = "signup"]
    /\ raw' = [raw EXCEPT ![w] = e]
    /\ IF get_by_email(NormalizeEmail(e)) # NoUser
       THEN /\ pc' = [pc EXCEPT ![w] = "done"]
            /\ result' = [result EXCEPT ![w] = "rejected"]
            /\ UNCHANGED email
       ELSE /\ pc' = [pc EXCEPT ![w] = "usave"]
            /\ email' = [email EXCEPT ![w] = NormalizeEmail(e)]
            /\ UNCHANGED result
    /\ UNCHANGED <<tasks, users, attempts, peers>>
    /\ UNCHANGED taskLocals

\* User.save(): one commit; an IntegrityError is not caught.
UserSave(w) ==
    /\ pc[w] = "usave"
    /\ attempts' = [attempts EXCEPT ![w] = attempts[w] + 1]
    /\ pc' = [pc EXCEPT ![w] = "done"]
    /\ IF EmailUniqueViolation(email[w])
       THEN /\ result' = [result EXCEPT ![w] = "error"]
            /\ UNCHANGED <<users, tid>>
       ELSE /\ users' = users \cup {[id |-> NewId(users), email |-> email[w]]}
            /\ tid' = [tid EXCEPT ![w] = NewId(users)]
            /\ result' = [result EXCEPT ![w] = "ok"]
    /\ UNCHANGED <<tasks, kind, title, owner, slug, base, cand, counter, snap, peers>>
    /\ UNCHANGED userLocals

-----------------------------------------------------------------------------

Next ==
    \E w \in Procs :
        \/ \E ttl \in Titles, u \in users : StartSave(w, ttl, u.id)
        \/ Query(w)
        \/ Commit1(w)
        \/ Commit2(w)
        \/ \E ttl \in Titles, u \in users : DirectInsert(w, ttl, u.id)
        \/ \E t \in tasks : CallGenerate(w, t)
        \/ \E e \in Emails : SignupCheck(w, e)
        \/ UserSave(w)

Spec == Init /\ [][Next]_vars

-----------------------------------------------------------------------------
(* Properties *)

Done(w) == pc[w] = "done"

\* Handlers that serve a request writing to table tasks.
TaskWriters == {w \in Procs : kind[w] \in {"save", "direct"}}

\* The n-th candidate of the sequence base, base-1, base-2, ...
CandAt(b, n) == IF n = 0 THEN b ELSE b \o <<"-">> \o ToStr(n)

\* The first candidate of the sequence that is not in S.
FirstUnused(b, S) ==
    CandAt(b, CHOOSE n \in 0..Cardinality(S) :
                  /\ CandAt(b, n) \notin S
                  /\ \A m \in 0..(n - 1) : CandAt(b, m) \in S)

\* Has the handler's call of _generate_unique_slug returned?
Generated(w) ==
    \/ kind[w] = "save" /\ pc[w] \in {"commit1", "gen2", "commit2", "done"}
    \/ kind[w] = "generate" /\ pc[w] = "done"

RowOf(w) == CHOOSE t \in tasks : t.id = tid[w]

Stored(w) ==
    /\ \E t \in tasks : t.id = tid[w]
    /\ RowOf(w).slug = slug[w]
    /\ RowOf(w).title = title[w]
    /\ RowOf(w).user_id = owner[w]

\* C1: two save() calls with the same title that overlap with no task
\* writer but each other both return without raising, and both tasks are
\* stored, under two distinct slugs.
C1_TwoWriters ==
    \A a \in Procs : \A b \in Procs \ {a} :
        ( /\ kind[a] = "save" /\ kind[b] = "save"
          /\ title[a] = title[b]
          /\ Done(a) /\ Done(b)
          /\ peers[a] \subseteq {b} /\ peers[b] \subseteq {a} )
        => /\ result[a] = "ok" /\ result[b] = "ok"
           /\ slug[a] # slug[b]
           /\ tid[a] # tid[b]
           /\ Stored(a) /\ Stored(b)

C1_Witness ==
    \E a \in Procs : \E b \in Procs \ {a} :
        /\ kind[a] = "save" /\ kind[b] = "save"
        /\ title[a] = title[b]
        /\ Done(a) /\ Done(b)
        /\ peers[a] = {b} /\ peers[b] = {a}
        /\ attempts[a] = 1 /\ attempts[b] = 2
        /\ result[b] = "ok"

\* C2: no two stored tasks share a slug and no stored task has an empty
\* slug, whatever the creations (failed ones included) did.
C2_SlugsUnique ==
    /\ \A t \in tasks : \A u \in tasks : t.slug = u.slug => t = u
    /\ \A t \in tasks : t.slug # Empty

C2_Witness ==
    /\ \E t \in tasks : \E u \in tasks : t # u /\ t.title = u.title
    /\ \E w \in TaskWriters : result[w] = "error"

\* C3: save() commits at most twice: the second commit happens only after
\* the first was rejected, and a rejected second commit ends the call with
\* the error.
C3_AtMostTwoCommits ==
    \A w \in Procs : kind[w] = "save" =>
        /\ attempts[w] <= 2
        /\ pc[w] \in {"gen1", "commit1"} => attempts[w] = 0
        /\ pc[w] \in {"gen2", "commit2"} => attempts[w] = 1
        /\ result[w] = "error" => Done(w) /\ attempts[w] = 2
        /\ result[w] = "ok" => Done(w) /\ attempts[w] \in {1, 2}
        /\ Done(w) => result[w] \in {"ok", "error"}

C3_Witness ==
    \E w \in Procs : kind[w] = "save" /\ result[w] = "error" /\ attempts[w] = 2

\* C4: for a title with a non-empty slugified form, the slug returned by
\* _generate_unique_slug is the first of base, base-1, base-2, ... that the
\* store did not hold when the call returned.
C4_FirstUnusedCandidate ==
    \A w \in Procs :
        (Generated(w) /\ Slugify(title[w]) # Empty)
        => slug[w] = FirstUnused(Slugify(title[w]), snap[w])

C4_Witness ==
    \E w \in Procs :
        /\ Generated(w)
        /\ title[w] = <<"P", "i", "n", "g">>
        /\ slug[w] = <<"p", "i", "n", "g", "-", "2">>
        /\ {<<"p", "i", "n", "g">>, <<"p", "i", "n", "g", "-", "1">>} \subseteq snap[w]

\* C5: when every task writer so far was a save() of one title and no two
\* of them overlapped, the stored tasks carry, in creation order, the slugs
\* base, base-1, ..., base-(k-1).
C5_SequentialSlugs ==
    ( /\ \A w \in TaskWriters : kind[w] = "save" /\ peers[w] = {}
      /\ \A v \in TaskWriters : \A w \in TaskWriters : title[v] = title[w] )
    => /\ \A w \in TaskWriters : Done(w) =>
              /\ result[w] = "ok"
              /\ Stored(w)
              /\ slug[w] = CandAt(Slugify(title[w]) \o
                                  (IF Slugify(title[w]) = Empty
                                   THEN <<"t", "a", "s", "k">> ELSE Empty),
                                  Cardinality({t \in tasks : t.id < tid[w]}))
       /\ Cardinality(tasks) = Cardinality({w \in TaskWriters : Done(w)})

C5_Witness ==
    /\ TaskWriters = Procs
    /\ \A w \in Procs :
          /\ kind[w] = "save" /\ peers[w] = {} /\ Done(w)
          /\ title[w] = <<"P", "i", "n", "g">>
    /\ \E w \in Procs : slug[w] = <<"p", "i", "n", "g", "-", "1">> /\ Stored(w)
    /\ Cardinality(tasks) = NumProcs

\* C6: after a save() that returned, get_by_slug of the task's slug is that
\* task: same id, title and owner.
C6_GetBySlugAfterSave ==
    \A w \in Procs :
        (kind[w] = "save" /\ Done(w) /\ result[w] = "ok")
        => /\ get_by_slug(slug[w]) # NoTask
           /\ get_by_slug(slug[w]).id = tid[w]
           /\ get_by_slug(slug[w]).title = title[w]
           /\ get_by_slug(slug[w]).user_id = owner[w]

C6_Witness ==
    \E w \in Procs :
        /\ kind[w] = "save" /\ Done(w) /\ result[w] = "ok" /\ attempts[w] = 2
        /\ get_by_slug(slug[w]).id = tid[w]
        /\ Cardinality(tasks) >= 2

\* C7: every stored e-mail is trimmed and lowercase, and the user created
\* by a signup is the one found under the trimmed lowercase form of the
\* address submitted; "A@B" is found under "a@b".
C7_EmailNormalized ==
    /\ \A u \in users : u.email = LowerStr(Strip(u.email))
    /\ \A w \in Procs :
          (kind[w] = "signup" /\ result[w] = "ok")
          => /\ get_by_email(LowerStr(Strip(raw[w]))).id = tid[w]
             /\ raw[w] = <<"A", "@", "B">> =>
                    get_by_email(<<"a", "@", "b">>).id = tid[w]

C7_Witness ==
    /\ \E w \in Procs :
          /\ kind[w] = "signup" /\ result[w] = "ok"
          /\ raw[w] = <<"A", "@", "B">>
          /\ get_by_email(<<"a", "@", "b">>).id = tid[w]
    /\ \E w \in Procs :
          /\ kind[w] = "signup" /\ result[w] = "ok"
          /\ raw[w] = <<" ", "c", "@", "b">>

\* C8: no two stored users share an e-mail; a signup rejected by the
\* pre-check issued no commit; of the signups with one e-mail that passed
\* the pre-check and committed, exactly one stored its user and every other
\* ended with the error after its single commit.
C8_EmailsUnique ==
    /\ \A u \in users : \A v \in users : u.email = v.email => u = v
    /\ \A w \in Procs : kind[w] = "signup" =>
          /\ attempts[w] <= 1
          /\ pc[w] = "usave" => attempts[w] = 0
          /\ result[w] = "rejected" =>
                /\ attempts[w] = 0 /\ Done(w)
                /\ \E u \in users : u.email = LowerStr(Strip(raw[w]))
          /\ result[w] = "error" =>
                /\ attempts[w] = 1 /\ Done(w)
                /\ \E u \in users : u.email = email[w] /\ u.id # tid[w]
          /\ result[w] = "ok" =>
                /\ attempts[w] = 1 /\ Done(w)
                /\ \E u \in users : u.email = email[w] /\ u.id = tid[w]
    /\ \A a \in Procs :
          (kind[a] = "signup" /\ attempts[a] = 1)
          => /\ result[a] \in {"ok", "error"}
             /\ Cardinality({b \in Procs :
                               /\ kind[b] = "signup" /\ email[b] = email[a]
                               /\ result[b] = "ok"}) = 1

C8_Witness ==
    /\ \E a \in Procs : \E b \in Procs \ {a} :
          /\ kind[a] = "signup" /\ kind[b] = "signup"
          /\ email[a] = email[b]
          /\ result[a] = "ok" /\ result[b] = "error"
    /\ \E w \in Procs : kind[w] = "signup" /\ result[w] = "rejected"

\* 'task', or 'task-<id>' for a task that has an id.
Placeholder(id) ==
    IF id = None THEN <<"t", "a", "s", "k">>
    ELSE <<"t", "a", "s", "k", "-">> \o ToStr(id)

\* The id the task had when its slug was assigned: a task being created
\* has none.
IdAtAssignment(w) == IF kind[w] = "generate" THEN tid[w] ELSE None

\* C9 as stated: for a title that slugifies to nothing, the slug assigned by
\* _generate_unique_slug and by the before_insert hook is non-empty and is
\* the first unused of placeholder, placeholder-1, ... for the task's id.
C9_Original ==
    \A w \in Procs :
        ( /\ Generated(w) \/ (kind[w] = "direct" /\ Done(w))
          /\ Slugify(title[w]) = Empty )
        => /\ slug[w] # Empty
           /\ slug[w] = FirstUnused(Placeholder(IdAtAssignment(w)), snap[w])

\* C9 amended: _generate_unique_slug returns the first unused of
\* placeholder, placeholder-1, ...; the before_insert hook assigns the bare
\* 'task', whatever the id and the store hold.
C9_FallbackSlug ==
    \A w \in Procs :
        /\ (Generated(w) /\ Slugify(title[w]) = Empty)
           => /\ slug[w] # Empty
              /\ slug[w] = FirstUnused(Placeholder(IdAtAssignment(w)), snap[w])
        /\ (kind[w] = "direct" /\ Done(w) /\ Slugify(title[w]) = Empty)
           => slug[w] = <<"t", "a", "s", "k">>

C9_Witness ==
    /\ \E w \in Procs :
          /\ kind[w] = "generate" /\ Done(w) /\ Slugify(title[w]) = Empty
          /\ tid[w] # None
          /\ slug[w] = <<"t", "a", "s", "k", "-">> \o ToStr(tid[w])
    /\ \E w \in Procs :
          /\ kind[w] = "direct" /\ Done(w) /\ Slugify(title[w]) = Empty
          /\ <<"t", "a", "s", "k">> \in snap[w]
          /\ result[w] = "error"

\* C10: no step removes or changes a stored task; the step that ends a
\* save() adds exactly the saved task when it succeeds and nothing when it
\* fails, every other step of a save() adds nothing; the stored tasks are
\* as many as the task writers that succeeded.
SaveStep(w) == kind'[w] = "save" /\ <<pc[w], cand[w]>> # <<pc'[w], cand'[w]>>

C10_Frame ==
    /\ [](Cardinality(tasks) =
            Cardinality({w \in TaskWriters : result[w] = "ok"}))
    /\ [][ /\ tasks \subseteq tasks'
           /\ \A w \in Procs : SaveStep(w) =>
                 IF result'[w] = "ok"
                 THEN /\ Cardinality(tasks') = Cardinality(tasks) + 1
                      /\ \E t \in tasks' \ tasks :
                            /\ t.id = tid'[w]
                            /\ t.slug = slug'[w]
                            /\ t.title = title'[w]
                            /\ t.user_id = owner'[w]
                 ELSE tasks' = tasks ]_vars

C10_Witness ==
    /\ \E w \in Procs : kind[w] = "save" /\ result[w] = "error"
    /\ \E w \in Procs : kind[w] = "save" /\ result[w] = "ok" /\ attempts[w] = 2
    /\ Cardinality(tasks) >= 2

=============================================================================
